---------------------------- MODULE Spec2Model ----------------------------
(***************************************************************************)
(* Model of the venue availability service (src/app/calendar.py and       *)
(* src/app/main.py): the token provider, the paginated event fetcher, the *)
(* per-venue cache with its refresh cycles, and the weekend projection.   *)
(*                                                                         *)
(* Dates are proleptic Gregorian ordinals (date.toordinal()), wall-clock  *)
(* time is seconds since the midnight that starts the process's first day.*)
(* The asyncio event loop runs one coroutine at a time, so every action   *)
(* is the code between two suspension points (await of a network call or  *)
(* of the sleep).                                                          *)
(***************************************************************************)
EXTENDS Integers, Sequences, FiniteSets, TLC

VARIABLES
    config,            \* _get_config(): the environment read at runtime
    startDay,          \* ordinal of the date on which the clock reads 0
    now,               \* wall clock, seconds
    cached_token,      \* calendar.py _cached_token
    token_expires_at,  \* calendar.py _token_expires_at
    cache,             \* main.py _cache
    phase,             \* where lifespan() is
    task,              \* the coroutine that is suspended (or about to run)
    cycle,             \* number of refresh_cache() calls started so far
    calls,             \* number of direct calls made by the unit harness
    exchanges,         \* number of token exchange requests sent so far
    obs                \* what the last step did and returned, in order

vars == <<config, startDay, now, cached_token, token_expires_at, cache,
          phase, task, cycle, calls, exchanges, obs>>

\* Optional values: None is the empty set, a present value x is {x}
None == {}

Some(x) == {x}

The(s) == CHOOSE x \in s : TRUE

(***************************************************************************)
(* Bounds of the model.                                                    *)
(***************************************************************************)
MaxCycles == 3
MaxPages == 3
MaxCalls == 2
YearsAhead == 5

(***************************************************************************)
(* Program constants.                                                      *)
(***************************************************************************)
VENUES == <<"garden", "ballroom">>

VenueSet == {VENUES[i] : i \in 1..Len(VENUES)}

REFRESH_INTERVAL_HOURS == 4

TokenBufferMinutes == 5

DefaultExpiresIn == 3600

MonthsAhead == 48

DefaultMonthsAhead == 36

HttpOk == 200

YearWindow == 4

(***************************************************************************)
(* datetime.date: ordinals, years, weekdays, ISO format.                   *)
(***************************************************************************)
IsLeap(y) == (y % 4 = 0) /\ ((y % 100 # 0) \/ (y % 400 = 0))

DaysInMonth(y, m) ==
    IF m = 2 THEN (IF IsLeap(y) THEN 29 ELSE 28)
    ELSE IF m \in {4, 6, 9, 11} THEN 30 ELSE 31

DaysBeforeYear(y) ==
    (y - 1) * 365 + ((y - 1) \div 4) - ((y - 1) \div 100) + ((y - 1) \div 400)

DaysBeforeMonthTable == <<0, 31, 59, 90, 120, 151, 181, 212, 243, 273, 304, 334>>

DaysBeforeMonth(y, m) ==
    DaysBeforeMonthTable[m] + (IF m > 2 /\ IsLeap(y) THEN 1 ELSE 0)

\* date(y, m, d) as an ordinal
Date(y, m, d) == DaysBeforeYear(y) + DaysBeforeMonth(y, m) + d

DaysInMonthTable == <<31, 28, 31, 30, 31, 30, 31, 31, 30, 31, 30, 31>>

\* the year, month and day of an ordinal, as datetime.date computes them:
\* 146097, 36524 and 1461 are the days in 400, 100 and 4 years
FromOrdinal(ord) ==
    LET n400 == (ord - 1) \div 146097
        r400 == (ord - 1) % 146097
        n100 == r400 \div 36524
        r100 == r400 % 36524
        n4 == r100 \div 1461
        r4 == r100 % 1461
        n1 == r4 \div 365
        n == r4 % 365
        year == n400 * 400 + 1 + n100 * 100 + n4 * 4 + n1
        leapyear == n1 = 3 /\ (n4 # 24 \/ n100 = 3)
        month == (n + 50) \div 32
        preceding == DaysBeforeMonthTable[month]
                     + (IF month > 2 /\ leapyear THEN 1 ELSE 0)
        before == preceding - (DaysInMonthTable[month - 1]
                     + (IF month - 1 = 2 /\ leapyear THEN 1 ELSE 0))
    IN  IF n1 = 4 \/ n100 = 4 THEN <<year - 1, 12, 31>>
        ELSE IF preceding > n THEN <<year, month - 1, n - before + 1>>
        ELSE <<year, month, n - preceding + 1>>

\* d.year
YearOf(n) == FromOrdinal(n)[1]

\* d.isoformat(): the year, month and day the string spells
IsoFormat(n) == FromOrdinal(n)

\* d.weekday(): Monday is 0, Sunday is 6
Weekday(n) == (n + 6) % 7

\* date.today()
Today == startDay + (now \div 86400)

(***************************************************************************)
(* main.py: lease boundaries and the weekend projection.                   *)
(***************************************************************************)
VENUE_LEASE_END == [v \in {"ballroom"} |-> Date(2030, 3, 31)]

\* VENUE_LEASE_END.get(venue)
LeaseEnd(venue) ==
    IF venue \in DOMAIN VENUE_LEASE_END THEN Some(VENUE_LEASE_END[venue]) ELSE None

DayNames == <<"", "", "", "", "friday", "saturday", "sunday">>

WeekendDayNumbers == {4, 5, 6}

\* variant: the membership test is inverted
DayRecord_Inverted(current, booked_dates) ==
    [date      |-> IsoFormat(current),
     day       |-> DayNames[Weekday(current) + 1],
     available |-> current \in booked_dates]

\* lines 94-99
DayRecord(current, booked_dates) ==
    [date      |-> IsoFormat(current),
     day       |-> DayNames[Weekday(current) + 1],
     available |-> current \notin booked_dates]

\* line 93
IsWeekendDay(current) == Weekday(current) \in WeekendDayNumbers

\* lines 90-100: the while loop, current running from start_date to end_date
WalkDays(start_date, end_date, booked_dates) ==
    LET scanned == [k \in 1..(end_date - start_date + 1) |-> start_date + k - 1]
        kept == SelectSeq(scanned, IsWeekendDay)
    IN  [k \in 1..Len(kept) |-> DayRecord(kept[k], booked_dates)]

\* variant: the scan starts on Jan 1 in the current year too
ScanStart_Jan1(year) == Date(year, 1, 1)

\* lines 71-76
ScanStart(year) ==
    IF year = YearOf(Today) THEN Today ELSE Date(year, 1, 1)

\* variant: the lease boundary does not clamp the end of the scan
ScanEnd_NoLease(venue, year) == Date(year, 12, 31)

\* lines 73, 79-81
ScanEnd(venue, year) ==
    LET end_date == Date(year, 12, 31)
        lease_end == LeaseEnd(venue)
    IN  IF lease_end # None /\ end_date > The(lease_end)
        THEN The(lease_end) ELSE end_date

get_weekend_days_for_year(venue, year) ==
    LET start_date == ScanStart(year)
        end_date == ScanEnd(venue, year)
        lease_end == LeaseEnd(venue)
        booked_dates == cache[venue].booked_dates
    IN  IF lease_end # None /\ start_date > The(lease_end)
        THEN <<>>
        ELSE WalkDays(start_date, end_date, booked_dates)

(***************************************************************************)
(* The machine state the code between two suspension points works on.     *)
(***************************************************************************)
IdleTask ==
    [pc |-> "none", entry |-> "none", periodic |-> FALSE, i |-> 0,
     calendar_id |-> "", start_date |-> 0, end_date |-> 0,
     access_token |-> None, before |-> [tok |-> None, exp |-> None, at |-> 0],
     booked_dates |-> {}, page |-> 0, read |-> <<>>, wake |-> 0]

Cur ==
    [now |-> now, tok |-> cached_token, exp |-> token_expires_at,
     cache |-> cache, phase |-> phase, task |-> task, cycle |-> cycle,
     exchanges |-> exchanges, obs |-> <<>>]

Apply(M) ==
    /\ now' = M.now
    /\ cached_token' = M.tok
    /\ token_expires_at' = M.exp
    /\ cache' = M.cache
    /\ phase' = M.phase
    /\ task' = M.task
    /\ cycle' = M.cycle
    /\ exchanges' = M.exchanges
    /\ obs' = M.obs

Emit(M, e) == [M EXCEPT !.obs = Append(@, e)]

\* a direct call of the unit harness has returned
Finish(M) == [M EXCEPT !.task = [IdleTask EXCEPT !.pc = "returned"]]

(***************************************************************************)
(* main.py refresh_cache, lines 35-36: the two stores that follow the      *)
(* await, with no suspension point between them.  set_cycle and            *)
(* stamp_cycle are history: the cycle that stored each of the two fields.  *)
(***************************************************************************)
\* variant: only the first of the two stores is made
WriteEntry_SetOnly(c, venue, booked, at, cyc) ==
    [c EXCEPT ![venue].booked_dates = booked, ![venue].set_cycle = cyc]

\* variant: the fetched dates are merged into the set already held
WriteEntry_Merge(c, venue, booked, at, cyc) ==
    [c EXCEPT ![venue] = [booked_dates |-> @.booked_dates \cup booked,
                          last_updated |-> Some(at),
                          set_cycle |-> cyc, stamp_cycle |-> cyc]]

WriteEntry(c, venue, booked, at, cyc) ==
    [c EXCEPT ![venue] = [booked_dates |-> booked, last_updated |-> Some(at),
                          set_cycle |-> cyc, stamp_cycle |-> cyc]]

\* The flow operators below take the machine record as M0 and bind it once as
\* M (The({e : M \in {M0}}) is e with M = M0), as a Python call binds its
\* argument once.

\* periodic_refresh line 43 and lifespan lines 52-53: what follows a cycle
CycleReturned(M0) ==
    The({
        IF M.task.periodic
        THEN [M EXCEPT !.task = [IdleTask EXCEPT
                  !.pc = "sleep", !.entry = "refresh", !.periodic = TRUE,
                  !.wake = M.now + REFRESH_INTERVAL_HOURS * 3600]]
        ELSE [M EXCEPT !.phase = "serving",
                       !.task = [IdleTask EXCEPT
                  !.pc = "ready", !.entry = "refresh", !.periodic = TRUE]]
        : M \in {M0}})

(***************************************************************************)
(* calendar.py get_access_token.                                           *)
(***************************************************************************)
\* variant: the stored token is reused up to its expiry, without the buffer
CachedValid_NoBuffer(tok, exp, t) ==
    /\ tok # None
    /\ exp # None
    /\ t < The(exp)

\* variant: the comparison is reversed
CachedValid_Reversed(tok, exp, t) ==
    /\ tok # None
    /\ exp # None
    /\ t > The(exp) - TokenBufferMinutes * 60

\* lines 46-47
CachedValid(tok, exp, t) ==
    /\ tok # None
    /\ exp # None
    /\ t < The(exp) - TokenBufferMinutes * 60

\* variant: the configuration is not looked at
RefreshTokenMissing_Never == FALSE

\* line 41
RefreshTokenMissing == ~config.refresh_token

RECURSIVE RefreshVenue(_, _)
RECURSIVE BookedReturned(_, _)

\* variant: an empty result is taken for a failure and the entry is kept
StoreAndContinue_KeepOnEmpty(M0, value) ==
    LET venue == VENUES[M0.task.i]
        M1 == [M0 EXCEPT !.cache = WriteEntry(@, venue, value, M0.now, M0.cycle)]
        M2 == Emit(M1, [kind |-> "write", venue |-> venue, value |-> value,
                        old |-> M0.cache[venue].booked_dates,
                        at |-> M0.now, cycle |-> M0.cycle])
    IN  RefreshVenue(IF value = {} THEN M0 ELSE M2, M0.task.i + 1)

\* main.py line 35-36 after get_booked_dates returned, then the next venue
StoreAndContinue(M0, value) ==
    The({
        LET venue == VENUES[M.task.i]
            M1 == [M EXCEPT !.cache = WriteEntry(@, venue, value, M.now, M.cycle)]
            M2 == Emit(M1, [kind |-> "write", venue |-> venue, value |-> value,
                            old |-> M.cache[venue].booked_dates,
                            at |-> M.now, cycle |-> M.cycle])
        IN  RefreshVenue(M2, M.task.i + 1)
        : M \in {M0}})

BookedReturned(M0, value) ==
    The({
        LET M1 == Emit(M, [kind |-> "booked_ret", value |-> value])
        IN  IF M.task.entry = "booked" THEN Finish(M1) ELSE StoreAndContinue(M1, value)
        : M \in {M0}})

\* fetch_calendar_events_graph returns (lines 81, 143)
FetchReturned(M0, value, why) ==
    The({
        LET M1 == Emit(M, [kind |-> "fetch_ret", value |-> value, why |-> why,
                           calendar_id |-> M.task.calendar_id,
                           start_date |-> M.task.start_date,
                           end_date |-> M.task.end_date,
                           pages |-> M.task.page, read |-> M.task.read])
        IN  IF M.task.entry = "fetch" THEN Finish(M1) ELSE BookedReturned(M1, value)
        : M \in {M0}})

\* lines 86-89: the URL asked for, by the calendar it names
EventsUrl(calendar_id) == IF calendar_id # "" THEN calendar_id ELSE "default"

\* lines 99-104: one page request is sent
SendGet(M0) ==
    The({
        Emit([M EXCEPT !.task.pc = "get", !.task.page = @ + 1],
             [kind |-> "get", page |-> M.task.page + 1,
              url |-> EventsUrl(M.task.calendar_id)])
        : M \in {M0}})

\* lines 79-83: fetch_calendar_events_graph once the token call is back
FetchAfterToken(M0, access_token) ==
    The({
        IF access_token = None
        THEN FetchReturned(M, {}, "no_token")
        ELSE SendGet([M EXCEPT !.task.access_token = access_token,
                               !.task.booked_dates = {},
                               !.task.page = 0, !.task.read = <<>>])
        : M \in {M0}})

\* get_access_token returns (lines 43, 48, 65, 71, 74)
TokenReturned(M0, value, exchanged, failed) ==
    The({
        LET M1 == Emit(M, [kind |-> "token_ret", value |-> value,
                           before |-> M.task.before,
                           after |-> [tok |-> M.tok, exp |-> M.exp],
                           at |-> M.now, exchanged |-> exchanged,
                           failed |-> failed])
        IN  IF M.task.entry = "token" THEN Finish(M1) ELSE FetchAfterToken(M1, value)
        : M \in {M0}})

\* lines 40-62: up to the return or to the await of the exchange request
get_access_token(M0) ==
    The({
        LET M1 == [M EXCEPT !.task.before =
                       [tok |-> M.tok, exp |-> M.exp, at |-> M.now]]
        IN  IF RefreshTokenMissing
            THEN TokenReturned(M1, None, FALSE, FALSE)
            ELSE IF CachedValid(M.tok, M.exp, M.now)
            THEN TokenReturned(M1, M.tok, FALSE, FALSE)
            ELSE Emit([M1 EXCEPT !.task.pc = "post", !.exchanges = @ + 1],
                      [kind |-> "post", at |-> M.now])
        : M \in {M0}})

\* lines 63-74: the exchange request is answered, or raises
OnPostResponse(M0, r) ==
    The({
        IF r.raises \/ r.status # HttpOk \/ ~r.json_ok \/ r.tok = "missing"
        THEN TokenReturned(M, None, TRUE, TRUE)
        ELSE LET M1 == [M EXCEPT !.tok = IF r.tok = "null" THEN None
                                         ELSE Some(M.exchanges)]
             IN  IF r.exp = "malformed"
                 THEN TokenReturned(M1, None, TRUE, TRUE)
                 ELSE LET secs == IF r.exp = "missing" THEN DefaultExpiresIn
                                  ELSE r.expires_in
                          M2 == [M1 EXCEPT !.exp = Some(M.now + secs)]
                      IN  TokenReturned(M2, M2.tok, TRUE, r.tok = "null")
        : M \in {M0}})

\* line 77-79
fetch_calendar_events_graph(M, calendar_id, start_date, end_date) ==
    get_access_token([M EXCEPT !.task.calendar_id = calendar_id,
                               !.task.start_date = start_date,
                               !.task.end_date = end_date])

\* calendar.py CALENDARS
CALENDARS == VenueSet

\* lines 146-164
get_booked_dates(M0, venue, months_ahead) ==
    The({
        IF venue \notin CALENDARS
        THEN BookedReturned(M, {})
        ELSE LET today == startDay + (M.now \div 86400)
                 end_date == today + months_ahead * 30
             IN  IF RefreshTokenMissing
                 THEN BookedReturned(M, {})
                 ELSE fetch_calendar_events_graph(
                          M, config.calendar_ids[venue], today, end_date)
        : M \in {M0}})

\* main.py lines 34-36: the loop over the venues, from venue number i on
RefreshVenue(M, i) ==
    IF i > Len(VENUES)
    THEN CycleReturned(M)
    ELSE get_booked_dates([M EXCEPT !.task.i = i], VENUES[i], MonthsAhead)

\* main.py line 32: a refresh cycle starts
refresh_cache(M) == RefreshVenue([M EXCEPT !.cycle = @ + 1], 1)

(***************************************************************************)
(* calendar.py fetch_calendar_events_graph: one page of events.           *)
(* A dateTime string is "date" (an ISO date-time, with or without a zone   *)
(* marker Z), "empty" (absent or "") or "garbage" (anything fromisoformat  *)
(* rejects).                                                               *)
(***************************************************************************)
\* line 127-128: strip Z, parse, take the date
ParseDate(dt) == Date(dt.ymd[1], dt.ymd[2], dt.ymd[3])

\* variant: the end date of the event is taken as booked too
RECURSIVE AddRange_Inclusive(_, _, _, _, _)
AddRange_Inclusive(current, event_end, start_date, end_date, booked_dates) ==
    IF current <= event_end
    THEN AddRange_Inclusive(current + 1, event_end, start_date, end_date,
                  IF start_date <= current /\ current <= end_date
                  THEN booked_dates \cup {current}
                  ELSE booked_dates)
    ELSE booked_dates

\* variant: the dates of an event are not limited to the window
RECURSIVE AddRange_NoWindow(_, _, _, _, _)
AddRange_NoWindow(current, event_end, start_date, end_date, booked_dates) ==
    IF current < event_end
    THEN AddRange_NoWindow(current + 1, event_end, start_date, end_date,
                  booked_dates \cup {current})
    ELSE booked_dates

\* lines 131-135
RECURSIVE AddRange(_, _, _, _, _)
AddRange(current, event_end, start_date, end_date, booked_dates) ==
    IF current < event_end
    THEN AddRange(current + 1, event_end, start_date, end_date,
                  IF start_date <= current /\ current <= end_date
                  THEN booked_dates \cup {current}
                  ELSE booked_dates)
    ELSE booked_dates

\* lines 114-135: the events of one page, from event number k on;
\* done counts the events the loop got through before it ended or raised
RECURSIVE ProcessEvents(_, _, _, _, _)
ProcessEvents(events, k, start_date, end_date, booked_dates) ==
    IF k > Len(events)
    THEN [booked |-> booked_dates, raised |-> FALSE, done |-> k - 1]
    ELSE LET event == events[k]
         IN  IF ~event.isAllDay
             THEN ProcessEvents(events, k + 1, start_date, end_date, booked_dates)
             ELSE IF event.start.form = "empty" \/ event.end.form = "empty"
             THEN ProcessEvents(events, k + 1, start_date, end_date, booked_dates)
             ELSE IF event.start.form = "garbage" \/ event.end.form = "garbage"
             THEN [booked |-> booked_dates, raised |-> TRUE, done |-> k - 1]
             ELSE ProcessEvents(events, k + 1, start_date, end_date,
                      AddRange(ParseDate(event.start), ParseDate(event.end),
                               start_date, end_date, booked_dates))

\* variant: an error status throws away what was accumulated
OnPageError_Rollback(M) == FetchReturned(M, {}, "http_error")

\* lines 107-109 and 143: a page answered with an error status
OnPageError(M) == FetchReturned(M, M.task.booked_dates, "http_error")

\* variant: the exception is not caught and ends the task it is raised in
OnException_Propagates(M) ==
    [M EXCEPT !.task = [IdleTask EXCEPT !.pc = "dead"],
              !.phase = IF @ = "startup" THEN "failed" ELSE @]

\* lines 140-143: an exception inside the try block
OnException(M) == FetchReturned(M, M.task.booked_dates, "exception")

\* lines 105-143: a page request is answered, or raises
OnGetResponse(M0, r) ==
    The({
        IF r.raises
        THEN OnException(M)
        ELSE IF r.status # HttpOk
        THEN OnPageError(M)
        ELSE IF ~r.json_ok
        THEN OnException(M)
        ELSE LET p == ProcessEvents(r.events, 1, M.task.start_date,
                                    M.task.end_date, M.task.booked_dates)
                 M1 == [M EXCEPT
                           !.task.booked_dates = p.booked,
                           !.task.read = @ \o [j \in 1..p.done |->
                               [page |-> M.task.page, event |-> r.events[j]]]]
             IN  IF p.raised
                 THEN OnException(M1)
                 ELSE IF r.next
                 THEN SendGet(M1)
                 ELSE FetchReturned(M1, p.booked, "complete")
        : M \in {M0}})

(***************************************************************************)
(* main.py get_availability.                                               *)
(***************************************************************************)
\* variant: the lease year does not limit the accepted years
MaxYear_NoLease(venue) == YearOf(Today) + YearWindow

\* lines 128-131
MaxYear(venue) ==
    LET max_year == YearOf(Today) + YearWindow
        lease_end == LeaseEnd(venue)
    IN  IF lease_end # None /\ YearOf(The(lease_end)) < max_year
        THEN YearOf(The(lease_end)) ELSE max_year

\* lines 120-146; year_arg is None when the query names no year
get_availability(venue, year_arg) ==
    IF venue \notin VenueSet
    THEN [kind |-> "response", status |-> 404, venue |-> venue]
    ELSE LET year == IF year_arg = None THEN YearOf(Today) ELSE The(year_arg)
         IN  IF year < YearOf(Today) \/ year > MaxYear(venue)
             THEN [kind |-> "response", status |-> 400, venue |-> venue]
             ELSE [kind |-> "response", status |-> HttpOk, venue |-> venue,
                   year |-> year,
                   minYear |-> YearOf(Today), maxYear |-> MaxYear(venue),
                   leaseEnd |-> IF LeaseEnd(venue) # None
                                THEN Some(IsoFormat(The(LeaseEnd(venue))))
                                ELSE None,
                   lastUpdated |-> cache[venue].last_updated,
                   days |-> get_weekend_days_for_year(venue, year),
                   set_cycle |-> cache[venue].set_cycle,
                   stamp_cycle |-> cache[venue].stamp_cycle]

(***************************************************************************)
(* What the provider may answer.                                           *)
(***************************************************************************)
ExpiresInChoices == {60, 330}

TokenAnswer(raises, status, json_ok, tok, exp, expires_in) ==
    [raises |-> raises, status |-> status, json_ok |-> json_ok, tok |-> tok,
     exp |-> exp, expires_in |-> expires_in]

AllTokenResponses ==
    {TokenAnswer(TRUE, 0, FALSE, "missing", "missing", 0),
     TokenAnswer(FALSE, 500, TRUE, "missing", "missing", 0),
     TokenAnswer(FALSE, HttpOk, FALSE, "missing", "missing", 0),
     TokenAnswer(FALSE, HttpOk, TRUE, "missing", "number", 330),
     TokenAnswer(FALSE, HttpOk, TRUE, "null", "number", 330),
     TokenAnswer(FALSE, HttpOk, TRUE, "string", "malformed", 0),
     TokenAnswer(FALSE, HttpOk, TRUE, "string", "missing", 0)}
    \cup {TokenAnswer(FALSE, HttpOk, TRUE, "string", "number", n) :
              n \in ExpiresInChoices}

SystemTokenResponses ==
    {TokenAnswer(FALSE, 500, TRUE, "missing", "missing", 0),
     TokenAnswer(FALSE, HttpOk, TRUE, "string", "malformed", 0),
     TokenAnswer(FALSE, HttpOk, TRUE, "string", "missing", 0)}

FetchTokenResponses ==
    {TokenAnswer(FALSE, 500, TRUE, "missing", "missing", 0),
     TokenAnswer(FALSE, HttpOk, TRUE, "string", "missing", 0)}

\* the answers each specification draws from
TokenResponses ==
    IF phase = "token" THEN AllTokenResponses
    ELSE IF phase = "fetch" THEN FetchTokenResponses
    ELSE SystemTokenResponses

DateTime(n) == [form |-> "date", ymd |-> IsoFormat(n)]

NoDateTime == [form |-> "empty", ymd |-> <<>>]

BadDateTime == [form |-> "garbage", ymd |-> <<>>]

\* an all-day event from day startDay + a up to, not including, startDay + b
AllDay(a, b) ==
    [isAllDay |-> TRUE, start |-> DateTime(startDay + a),
     end |-> DateTime(startDay + b)]

Timed(a, b) ==
    [isAllDay |-> FALSE, start |-> DateTime(startDay + a),
     end |-> DateTime(startDay + b)]

Horizon == MonthsAhead * 30

\* a page with a booking, an event that is not all-day and a booking that
\* runs across the end of the fetch window; and an empty page
SystemPages ==
    {<<AllDay(2, 4), Timed(9, 10), AllDay(Horizon - 1, Horizon + 7)>>, <<>>}

FetchPages ==
    {<<AllDay(2, 4), Timed(9, 10)>>,
     <<AllDay(3, 5), AllDay(-2, 1)>>,
     <<AllDay(Horizon - 1, Horizon + 3)>>,
     <<AllDay(6, 7), [AllDay(7, 8) EXCEPT !.end = BadDateTime], AllDay(8, 9)>>,
     <<[AllDay(5, 6) EXCEPT !.end = NoDateTime], AllDay(5, 5), AllDay(7, 6)>>}

Pages == IF phase = "fetch" THEN FetchPages ELSE SystemPages

PageAnswer(raises, status, json_ok, events, next) ==
    [raises |-> raises, status |-> status, json_ok |-> json_ok,
     events |-> events, next |-> next]

PageResponses ==
    {PageAnswer(TRUE, 0, FALSE, <<>>, FALSE),
     PageAnswer(FALSE, 500, TRUE, <<>>, FALSE),
     PageAnswer(FALSE, HttpOk, FALSE, <<>>, FALSE)}
    \cup {PageAnswer(FALSE, HttpOk, TRUE, es, nx) :
              es \in Pages,
              nx \in IF task.page < MaxPages THEN BOOLEAN ELSE {FALSE}}

\* the later clock readings each specification lets the clock jump to
ClockReadings ==
    IF phase = "token" THEN {30, 60, 3300, REFRESH_INTERVAL_HOURS * 3600}
    ELSE {k * REFRESH_INTERVAL_HOURS * 3600 : k \in 1..(MaxCycles - 2)}

(***************************************************************************)
(* Actions shared by the specifications.                                   *)
(***************************************************************************)
\* time passes: while a coroutine is suspended, or between two calls
Tick ==
    /\ phase \in {"token", "startup", "serving"}
    /\ \E t \in ClockReadings :
           /\ t > now
           /\ now' = t
    /\ obs' = <<>>
    /\ UNCHANGED <<config, startDay, cached_token, token_expires_at, cache,
                   phase, task, cycle, calls, exchanges>>

PostResponse ==
    /\ task.pc = "post"
    /\ \E r \in TokenResponses :
           Apply(OnPostResponse(Emit(Cur, [kind |-> "answer", answer |-> r]), r))
    /\ UNCHANGED <<config, startDay, calls>>

GetResponse ==
    /\ task.pc = "get"
    /\ \E r \in PageResponses :
           Apply(OnGetResponse(Emit(Cur, [kind |-> "page", answer |-> r]), r))
    /\ UNCHANGED <<config, startDay, calls>>

(***************************************************************************)
(* The service: lifespan, the periodic task, the queries.                  *)
(***************************************************************************)
\* variant: lifespan starts the periodic task and serves without first
\* awaiting a refresh
Startup_NoBarrier ==
    /\ phase = "boot"
    /\ Apply([Cur EXCEPT
           !.phase = "serving",
           !.task = [IdleTask EXCEPT
               !.pc = "ready", !.entry = "refresh", !.periodic = TRUE]])
    /\ UNCHANGED <<config, startDay, calls>>

\* lifespan line 50: the startup refresh begins
Startup ==
    /\ phase = "boot"
    /\ Apply(refresh_cache([Cur EXCEPT
           !.phase = "startup",
           !.task = [IdleTask EXCEPT !.entry = "refresh"]]))
    /\ UNCHANGED <<config, startDay, calls>>

\* periodic_refresh lines 41-42: the task created at line 52 runs first
PeriodicStart ==
    /\ phase = "serving"
    /\ task.pc = "ready"
    /\ cycle < MaxCycles
    /\ Apply(refresh_cache(Cur))
    /\ UNCHANGED <<config, startDay, calls>>

\* variant: the next cycle is started by the clock alone, whether or not the
\* cycle before it has returned
SleepDone_NotAwaited ==
    /\ phase = "serving"
    /\ \/ task.pc = "sleep" /\ now >= task.wake
       \/ task.pc \in {"post", "get"}
    /\ cycle < MaxCycles
    /\ Apply(refresh_cache(Cur))
    /\ UNCHANGED <<config, startDay, calls>>

\* periodic_refresh lines 43, 41-42: the sleep is over, the next cycle begins
SleepDone ==
    /\ phase = "serving"
    /\ task.pc = "sleep"
    /\ now >= task.wake
    /\ cycle < MaxCycles
    /\ Apply(refresh_cache(Cur))
    /\ UNCHANGED <<config, startDay, calls>>

QueryVenues == VenueSet \cup {"patio"}

\* no year, and the years at and around the two ends of the accepted range
QueryYears ==
    {None} \cup {Some(YearOf(Today) + k) :
                    k \in {-1, YearWindow, YearWindow + 1}}

\* A query changes nothing but obs, so a query that directly follows another
\* reaches the state the second one reaches alone: only the first is taken.
Query ==
    /\ phase = "serving"
    /\ ~(Len(obs) > 0 /\ obs[1].kind = "response")
    /\ \E venue \in QueryVenues, year_arg \in QueryYears :
           obs' = <<get_availability(venue, year_arg)>>
    /\ UNCHANGED <<config, startDay, now, cached_token, token_expires_at,
                   cache, phase, task, cycle, calls, exchanges>>

\* variant: the cancellation lands between the two stores of an entry
Shutdown_BetweenStores ==
    /\ phase = "serving"
    /\ phase' = "stopped"
    /\ task' = [IdleTask EXCEPT !.pc = "cancelled"]
    /\ obs' = <<[kind |-> "cancel", pc |-> task.pc]>>
    /\ cache' = IF task.pc \in {"post", "get"}
                THEN [cache EXCEPT ![VENUES[task.i]].booked_dates = {},
                                   ![VENUES[task.i]].set_cycle = cycle]
                ELSE cache
    /\ UNCHANGED <<config, startDay, now, cached_token, token_expires_at,
                   cycle, calls, exchanges>>

\* lifespan lines 55-59: the periodic task is cancelled where it is suspended
Shutdown ==
    /\ phase = "serving"
    /\ phase' = "stopped"
    /\ task' = [IdleTask EXCEPT !.pc = "cancelled"]
    /\ obs' = <<[kind |-> "cancel", pc |-> task.pc]>>
    /\ UNCHANGED <<config, startDay, now, cached_token, token_expires_at,
                   cache, cycle, calls, exchanges>>

InitialCache ==
    [v \in VenueSet |-> [booked_dates |-> {}, last_updated |-> None,
                         set_cycle |-> 0, stamp_cycle |-> 0]]

Handles == [garden |-> "cal-garden", ballroom |-> "cal-ballroom"]

SystemConfigs ==
    {[refresh_token |-> TRUE, calendar_ids |-> Handles],
     [refresh_token |-> FALSE, calendar_ids |-> Handles],
     [refresh_token |-> TRUE, calendar_ids |-> [Handles EXCEPT !.garden = ""]]}

SystemStartDays == {Date(2026, 6, 10)}

Init ==
    /\ config \in SystemConfigs
    /\ startDay \in SystemStartDays
    /\ now = 0
    /\ cached_token = None
    /\ token_expires_at = None
    /\ cache = InitialCache
    /\ phase = "boot"
    /\ task = IdleTask
    /\ cycle = 0
    /\ calls = 0
    /\ exchanges = 0
    /\ obs = <<>>

Next ==
    \/ Startup
    \/ PeriodicStart
    \/ SleepDone
    \/ PostResponse
    \/ GetResponse
    \/ Query
    \/ Tick
    \/ Shutdown

Spec == Init /\ [][Next]_vars

\* a step of the task that is running or suspended; at most one of these is
\* enabled in a state
TaskStep ==
    \/ Startup
    \/ PeriodicStart
    \/ SleepDone
    \/ PostResponse
    \/ GetResponse

\* The service as the event loop schedules it: lifespan runs when the process
\* starts, a request that is awaited is answered or raises (the client's
\* timeout), and a task that can run does run.
Fairness == WF_vars(TaskStep)

\* The refresh loop with the queries left out: a query reads the cache and
\* changes nothing the loop reads.
NextLive ==
    \/ Startup
    \/ PeriodicStart
    \/ SleepDone
    \/ PostResponse
    \/ GetResponse
    \/ Tick
    \/ Shutdown

SpecLive == Init /\ [][NextLive]_vars /\ Fairness

(***************************************************************************)
(* The projection alone: get_weekend_days_for_year applied once to a       *)
(* venue and a year, for a drawn date of today and drawn cache contents.   *)
(***************************************************************************)
ProjectDays ==
    {Date(2026, 1, 1), Date(2026, 6, 10), Date(2026, 12, 31), Date(2028, 2, 29),
     Date(2030, 3, 30), Date(2030, 3, 31), Date(2030, 4, 1), Date(2031, 1, 1)}

ProjectBooked(today) ==
    {{},
     {Date(2026, 6, 12), Date(2026, 6, 13)},
     {today, today + 1, Date(2030, 3, 29), Date(2030, 3, 31), Date(2030, 4, 5)}}

ProjectYears == (YearOf(Today) - 1)..(YearOf(Today) + YearsAhead)

InitProject ==
    /\ config = [refresh_token |-> TRUE, calendar_ids |-> Handles]
    /\ startDay \in ProjectDays
    /\ now = 0
    /\ cached_token = None
    /\ token_expires_at = None
    /\ \E b \in [VenueSet -> ProjectBooked(startDay)] :
           cache = [v \in VenueSet |->
                       [booked_dates |-> b[v], last_updated |-> Some(0),
                        set_cycle |-> 1, stamp_cycle |-> 1]]
    /\ phase = "project"
    /\ task = IdleTask
    /\ cycle = 1
    /\ calls = 0
    /\ exchanges = 0
    /\ obs = <<>>

Project ==
    /\ phase = "project"
    /\ obs = <<>>
    /\ \E venue \in VenueSet, year \in ProjectYears :
           obs' = <<[kind |-> "project", venue |-> venue, year |-> year,
                     today |-> Today,
                     days |-> get_weekend_days_for_year(venue, year)]>>
    /\ UNCHANGED <<config, startDay, now, cached_token, token_expires_at,
                   cache, phase, task, cycle, calls, exchanges>>

NextProject == Project

SpecProject == InitProject /\ [][NextProject]_vars

(***************************************************************************)
(* The query handler alone: get_availability applied once to a venue and   *)
(* a year, for a drawn date of today and drawn cache contents.             *)
(***************************************************************************)
AskDays ==
    {Date(2026, 6, 10), Date(2027, 1, 1), Date(2029, 12, 31),
     Date(2030, 3, 31), Date(2031, 1, 1)}

\* no year, and every year from the one before the current year to the one
\* after the widest accepted range
AskYears ==
    {None} \cup {Some(y) : y \in (YearOf(Today) - 1)..(YearOf(Today) + YearWindow + 1)}

InitAsk ==
    /\ config = [refresh_token |-> TRUE, calendar_ids |-> Handles]
    /\ startDay \in AskDays
    /\ now = 0
    /\ cached_token = None
    /\ token_expires_at = None
    /\ \E b \in [VenueSet -> ProjectBooked(startDay)] :
           cache = [v \in VenueSet |->
                       [booked_dates |-> b[v], last_updated |-> Some(0),
                        set_cycle |-> 1, stamp_cycle |-> 1]]
    /\ phase = "ask"
    /\ task = IdleTask
    /\ cycle = 1
    /\ calls = 0
    /\ exchanges = 0
    /\ obs = <<>>

\* one request GET /api/availability/{venue}?year=...
Ask ==
    /\ phase = "ask"
    /\ obs = <<>>
    /\ \E venue \in QueryVenues, year_arg \in AskYears :
           obs' = <<[kind |-> "query", venue |-> venue, year_arg |-> year_arg],
                    get_availability(venue, year_arg)>>
    /\ UNCHANGED <<config, startDay, now, cached_token, token_expires_at,
                   cache, phase, task, cycle, calls, exchanges>>

NextAsk == Ask

SpecAsk == InitAsk /\ [][NextAsk]_vars

(***************************************************************************)
(* The token provider alone: get_access_token called directly, for a      *)
(* drawn configuration and a drawn content of the credential slot, with    *)
(* the clock running between and during the calls.                         *)
(***************************************************************************)
\* the slot is empty, or holds the token and the expiry of an earlier exchange
\* (which takes a configured refresh token)
Slots ==
    {[tok |-> None, exp |-> None]}
    \cup {[tok |-> Some(0), exp |-> Some(e)] : e \in {330, DefaultExpiresIn}}

InitCalls(ph, configs) ==
    /\ config \in configs
    /\ startDay = Date(2026, 6, 10)
    /\ now = 0
    /\ \E slot \in Slots :
           /\ slot.tok # None => config.refresh_token
           /\ cached_token = slot.tok
           /\ token_expires_at = slot.exp
    /\ cache = InitialCache
    /\ phase = ph
    /\ task = IdleTask
    /\ cycle = 0
    /\ calls = 0
    /\ exchanges = 0
    /\ obs = <<>>

InitToken ==
    InitCalls("token", {[refresh_token |-> rt, calendar_ids |-> Handles] :
                            rt \in BOOLEAN})

CanCall ==
    /\ task.pc \in {"none", "returned"}
    /\ calls < MaxCalls

Called(entry) == [Cur EXCEPT !.task = [IdleTask EXCEPT !.entry = entry]]

CallToken ==
    /\ phase \in {"token", "fetch"}
    /\ CanCall
    /\ Apply(get_access_token(Called("token")))
    /\ calls' = calls + 1
    /\ UNCHANGED <<config, startDay>>

NextToken ==
    \/ CallToken
    \/ PostResponse
    \/ Tick

SpecToken == InitToken /\ [][NextToken]_vars

(***************************************************************************)
(* The fetcher alone: fetch_calendar_events_graph and get_booked_dates     *)
(* called directly.                                                        *)
(***************************************************************************)
FetchConfigs ==
    {[refresh_token |-> rt, calendar_ids |-> ids] :
         rt \in BOOLEAN, ids \in {Handles, [Handles EXCEPT !.garden = ""]}}

FetchWindows ==
    {<<startDay, startDay + Horizon>>,
     <<startDay + 3, startDay + 3>>,
     <<startDay + 5, startDay + 2>>}

InitFetch == InitCalls("fetch", FetchConfigs)

CallFetch ==
    /\ phase = "fetch"
    /\ CanCall
    /\ \E calendar_id \in {"", "cal-garden"}, w \in FetchWindows :
           Apply(fetch_calendar_events_graph(Called("fetch"), calendar_id,
                                             w[1], w[2]))
    /\ calls' = calls + 1
    /\ UNCHANGED <<config, startDay>>

CallBooked ==
    /\ phase = "fetch"
    /\ CanCall
    /\ \E venue \in {"garden", "patio"},
          months_ahead \in {DefaultMonthsAhead, MonthsAhead} :
           Apply(get_booked_dates(Called("booked"), venue, months_ahead))
    /\ calls' = calls + 1
    /\ UNCHANGED <<config, startDay>>

NextFetch ==
    \/ CallToken
    \/ CallFetch
    \/ CallBooked
    \/ PostResponse
    \/ GetResponse

SpecFetch == InitFetch /\ [][NextFetch]_vars

(***************************************************************************)
(* The claims.                                                             *)
(***************************************************************************)
ObsOf(kind) == {i \in DOMAIN obs : obs[i].kind = kind}

Served == {i \in ObsOf("response") : obs[i].status = HttpOk}

DateOfIso(ymd) == Date(ymd[1], ymd[2], ymd[3])

\* C1: a response to an availability query is built from one refresh cycle:
\* its day records are all computed against the booked-date set the venue's
\* entry holds, and the lastUpdated it reports was stored by the cycle that
\* stored that set; it is absent only with the initial, never refreshed set.
C1_ResponseFromOneCycle ==
    \A i \in Served :
        LET r == obs[i]
            e == cache[r.venue]
        IN  /\ r.set_cycle = r.stamp_cycle
            /\ (r.lastUpdated = None) <=> (r.stamp_cycle = 0)
            /\ r.lastUpdated = e.last_updated
            /\ r.set_cycle = e.set_cycle
            /\ \A k \in DOMAIN r.days :
                   r.days[k].available
                       = (DateOfIso(r.days[k].date) \notin e.booked_dates)

\* a query answered in the middle of a later cycle: garden already rewritten
\* by it, ballroom not yet
C1_Witness ==
    \E i \in Served :
        /\ obs[i].venue = "garden"
        /\ cycle >= 2
        /\ obs[i].set_cycle = cycle
        /\ cache["ballroom"].set_cycle < cycle
        /\ task.pc \in {"post", "get"}
        /\ \E k \in DOMAIN obs[i].days : ~obs[i].days[k].available

\* C2 as stated: every credential get_access_token returns, reused or fresh,
\* expires more than 5 minutes after the moment it is returned.
C2_Original ==
    \A i \in ObsOf("token_ret") :
        obs[i].value # None =>
            /\ obs[i].after.exp # None
            /\ The(obs[i].after.exp) > obs[i].at + TokenBufferMinutes * 60

ReportedValidity(r) == IF r.exp = "missing" THEN DefaultExpiresIn ELSE r.expires_in

\* C2 amended: a credential returned by reuse has a stored expiry more than
\* 5 minutes after the moment it is returned; a credential returned fresh
\* from an exchange has the expiry return time + reported validity (3600 s
\* when the answer omits it), however short that validity is.
C2_ReusedBeyondBuffer ==
    \A i \in ObsOf("token_ret") :
        obs[i].value # None =>
            /\ obs[i].after.exp # None
            /\ ~obs[i].exchanged =>
                   The(obs[i].after.exp) > obs[i].at + TokenBufferMinutes * 60
            /\ obs[i].exchanged =>
                   /\ obs[i - 1].kind = "answer"
                   /\ The(obs[i].after.exp)
                          = obs[i].at + ReportedValidity(obs[i - 1].answer)

\* a stored credential is reused on the second call, 330 s before its expiry
C2_Witness ==
    \E i \in ObsOf("token_ret") :
        /\ obs[i].value # None
        /\ ~obs[i].exchanged
        /\ The(obs[i].after.exp) = obs[i].at + 330
        /\ calls = 2

\* C3: the slot is empty or holds a token with its expiry, and an exchange
\* that fails (error status, network error, unreadable answer, missing or
\* malformed token or validity field) returns Unavailable and leaves the
\* token and the expiry of the slot as they were before the call.
C3_FailedExchangeKeepsSlot ==
    /\ (cached_token = None) <=> (token_expires_at = None)
    /\ \A i \in ObsOf("token_ret") :
           obs[i].failed =>
               /\ obs[i].value = None
               /\ obs[i].after.tok = obs[i].before.tok
               /\ obs[i].after.exp = obs[i].before.exp

\* C4: with a stored credential more than 5 minutes from its expiry when
\* get_access_token is called, the call returns that credential, sends no
\* exchange request and leaves the slot as it was.
C4_ValidCredentialReused ==
    \A i \in ObsOf("token_ret") :
        LET e == obs[i]
        IN  (/\ e.before.tok # None
             /\ e.before.exp # None
             /\ The(e.before.exp) > e.before.at + TokenBufferMinutes * 60)
            => /\ e.value = e.before.tok
               /\ ~e.exchanged
               /\ e.after.tok = e.before.tok
               /\ e.after.exp = e.before.exp
               /\ ObsOf("post") = {}

\* two consecutive calls, the first exchanged, the second reused its token
C4_Witness ==
    \E i \in ObsOf("token_ret") :
        /\ obs[i].before.tok = Some(1)
        /\ The(obs[i].before.exp) > obs[i].before.at + TokenBufferMinutes * 60
        /\ obs[i].value = Some(1)
        /\ calls = 2
        /\ exchanges = 1

\* the dates an event books: start <= d < end; none for an event that is
\* not all-day or lacks a date
Books(event) ==
    IF event.isAllDay /\ event.start.form = "date" /\ event.end.form = "date"
    THEN {d \in DateOfIso(event.start.ymd)..(DateOfIso(event.end.ymd) - 1) : TRUE}
    ELSE {}

\* the dates some event read books, the window bounds included
Qualifying(read, from, to) ==
    {d \in UNION {Books(read[j].event) : j \in DOMAIN read} :
         from <= d /\ d <= to}

\* C5: a fetch that read all its pages returns exactly the dates d with
\* start <= d < end for some all-day event read and fromDate <= d <= toDate.
C5_FetchedSetExact ==
    \A i \in ObsOf("fetch_ret") :
        obs[i].why = "complete" =>
            obs[i].value
                = Qualifying(obs[i].read, obs[i].start_date, obs[i].end_date)

\* two pages read: overlapping events, an event that is not all-day, and an
\* event that begins before the window
C5_Witness ==
    \E i \in ObsOf("fetch_ret") :
        /\ obs[i].why = "complete"
        /\ obs[i].pages = 2
        /\ obs[i].value = startDay..(startDay + 4) \ {startDay + 1}
        /\ \E j \in DOMAIN obs[i].read : ~obs[i].read[j].event.isAllDay

\* C6: when page k answers with an error status the fetch returns at once,
\* with the qualifying dates of the events read on the pages before k: no
\* further page is requested and nothing already accumulated is dropped.
C6_PartialOnPageError ==
    \A i \in ObsOf("fetch_ret") :
        obs[i].why = "http_error" =>
            /\ obs[i].value
                   = Qualifying(obs[i].read, obs[i].start_date, obs[i].end_date)
            /\ \A j \in DOMAIN obs[i].read : obs[i].read[j].page < obs[i].pages
            /\ \A p \in 1..(obs[i].pages - 1) :
                   \E j \in DOMAIN obs[i].read : obs[i].read[j].page = p
            /\ ObsOf("get") = {}
            /\ task.pc = "returned"

\* page 1 is read and announces a next page, page 2 fails
C6_Witness ==
    \E i \in ObsOf("fetch_ret") :
        /\ obs[i].why = "http_error"
        /\ obs[i].pages = 2
        /\ obs[i].value = {startDay + 2, startDay + 3}

\* C7: without a configured refresh token get_access_token returns
\* Unavailable, the fetch functions return the empty set, and no exchange
\* request and no page request is sent.
C7_NoRefreshTokenNoNetwork ==
    ~config.refresh_token =>
        /\ \A i \in ObsOf("token_ret") : obs[i].value = None
        /\ \A i \in ObsOf("fetch_ret") : obs[i].value = {}
        /\ \A i \in ObsOf("booked_ret") : obs[i].value = {}
        /\ ObsOf("post") = {} /\ ObsOf("get") = {}
        /\ exchanges = 0
        /\ task.pc \notin {"post", "get"}

\* fetch_calendar_events_graph itself is called without a refresh token
C7_Witness ==
    /\ ~config.refresh_token
    /\ ObsOf("fetch_ret") # {}
    /\ ObsOf("booked_ret") = {}
    /\ calls = 2

\* C8: a refresh of a venue stores exactly the set its fetch returned, so a
\* date of an earlier cycle stays only if the new fetch produced it too, and
\* a query reports a day unavailable only if the stored set holds it.
C8_RefreshReplacesSet ==
    /\ \A i \in ObsOf("write") :
           /\ obs[i - 1].kind = "booked_ret"
           /\ obs[i - 1].value = obs[i].value
           /\ cache[obs[i].venue].booked_dates = obs[i].value
           /\ cache[obs[i].venue].set_cycle = obs[i].cycle
    /\ \A i \in Served :
           \A k \in DOMAIN obs[i].days :
               ~obs[i].days[k].available =>
                   DateOfIso(obs[i].days[k].date)
                       \in cache[obs[i].venue].booked_dates

\* a later cycle stores a set that lacks dates the entry held before
C8_Witness ==
    \E i \in ObsOf("write") :
        /\ obs[i].old \ obs[i].value # {}
        /\ obs[i].cycle >= 2

\* the start of the scan as the claims state it
ClaimStart(year, today) ==
    IF year = YearOf(today)
    THEN (IF today > Date(year, 1, 1) THEN today ELSE Date(year, 1, 1))
    ELSE Date(year, 1, 1)

\* the end of the scan as the claims state it
ClaimEnd(venue, year) ==
    IF venue = "ballroom" /\ Date(2030, 3, 31) < Date(year, 12, 31)
    THEN Date(2030, 3, 31)
    ELSE Date(year, 12, 31)

\* C9: for the venue with a lease boundary L = 2030-03-31 the projection has
\* no record dated after L, and is empty when the scan start is after L (so
\* for 2031 and every later year).
C9_NothingAfterLease ==
    \A i \in ObsOf("project") :
        LET p == obs[i]
        IN  p.venue = "ballroom" =>
                /\ \A k \in DOMAIN p.days :
                       DateOfIso(p.days[k].date) <= Date(2030, 3, 31)
                /\ ClaimStart(p.year, p.today) > Date(2030, 3, 31)
                       => p.days = <<>>
                /\ p.year >= 2031 => p.days = <<>>

\* the projection of 2030 for the leased venue ends on the boundary itself
C9_Witness ==
    \E i \in ObsOf("project") :
        /\ obs[i].venue = "ballroom"
        /\ obs[i].year = 2030
        /\ Len(obs[i].days) > 0
        /\ obs[i].days[Len(obs[i].days)].date = <<2030, 3, 31>>

\* the weekday name of a date, counted from Friday 2026-06-12
ClaimDayName(d) ==
    LET k == (d - Date(2026, 6, 12)) % 7
    IN  IF k = 0 THEN "friday"
        ELSE IF k = 1 THEN "saturday"
        ELSE IF k = 2 THEN "sunday"
        ELSE "weekday"

\* C10: the projection holds one record for each Friday, Saturday and Sunday
\* of [start, end], in strictly ascending order, with the weekday name and
\* available = (the date is not in the venue's cached set), and no other.
C10_ExactlyTheWeekendDays ==
    \A i \in ObsOf("project") :
        LET p == obs[i]
            wanted == {d \in ClaimStart(p.year, p.today)..ClaimEnd(p.venue, p.year) :
                          ClaimDayName(d) # "weekday"}
            dateAt(k) == DateOfIso(p.days[k].date)
        IN  /\ Len(p.days) = Cardinality(wanted)
            /\ \A k \in DOMAIN p.days :
                   /\ dateAt(k) \in wanted
                   /\ k > 1 => dateAt(k - 1) < dateAt(k)
                   /\ p.days[k].day = ClaimDayName(dateAt(k))
                   /\ p.days[k].available
                          = (dateAt(k) \notin cache[p.venue].booked_dates)

\* the current year, from a day in mid-year on, with booked days in it
C10_Witness ==
    \E i \in ObsOf("project") :
        /\ obs[i].year = 2026
        /\ obs[i].today = Date(2026, 6, 10)
        /\ Len(obs[i].days) > 80
        /\ obs[i].days[1].date = <<2026, 6, 12>>
        /\ ~obs[i].days[1].available
        /\ obs[i].days[3].available

\* the projection p holds a record for the date ymd with this availability
HasRecord(p, ymd, available) ==
    \E k \in DOMAIN p.days :
        /\ p.days[k].date = ymd
        /\ p.days[k].available = available

\* a projection of 2026 made on or before 2026-06-12 for a venue whose cached
\* set is {2026-06-12, 2026-06-13}
C11_Scenario(p) ==
    /\ p.year = 2026
    /\ p.today <= Date(2026, 6, 12)
    /\ cache[p.venue].booked_dates = {Date(2026, 6, 12), Date(2026, 6, 13)}

\* C11 as stated: in the scenario the records of Saturday 2026-06-13 and of
\* Sunday 2026-06-14 have available = FALSE, that of Friday 2026-06-19 TRUE.
C11_Original ==
    \A i \in ObsOf("project") :
        C11_Scenario(obs[i]) =>
            /\ HasRecord(obs[i], <<2026, 6, 13>>, FALSE)
            /\ HasRecord(obs[i], <<2026, 6, 14>>, FALSE)
            /\ HasRecord(obs[i], <<2026, 6, 19>>, TRUE)

\* C11 amended: in the scenario the record of Saturday 2026-06-13 has
\* available = FALSE, and the records of Sunday 2026-06-14 (which is not in
\* the booked set) and of Friday 2026-06-19 have available = TRUE.
C11_ScenarioRecords ==
    \A i \in ObsOf("project") :
        C11_Scenario(obs[i]) =>
            /\ HasRecord(obs[i], <<2026, 6, 13>>, FALSE)
            /\ HasRecord(obs[i], <<2026, 6, 14>>, TRUE)
            /\ ~HasRecord(obs[i], <<2026, 6, 14>>, FALSE)
            /\ HasRecord(obs[i], <<2026, 6, 19>>, TRUE)

\* the scenario projected on 2026-06-10
C11_Witness ==
    \E i \in ObsOf("project") :
        /\ C11_Scenario(obs[i])
        /\ obs[i].today = Date(2026, 6, 10)
        /\ HasRecord(obs[i], <<2026, 6, 12>>, FALSE)

\* the last year getAvailability accepts, as the claim states it
ClaimMaxYear(venue, today) ==
    IF venue = "ballroom" /\ 2030 < YearOf(today) + 4
    THEN 2030 ELSE YearOf(today) + 4

\* the answer the claim gives to a query q made on the day today
ClaimStatus(q, today) ==
    LET year == IF q.year_arg = None THEN YearOf(today) ELSE The(q.year_arg)
    IN  IF q.venue \notin {"garden", "ballroom"} THEN 404
        ELSE IF year < YearOf(today) \/ year > ClaimMaxYear(q.venue, today)
        THEN 400 ELSE 200

\* C12: a query for a venue that is not configured is answered not-found,
\* one for a year outside [currentYear, min(currentYear + 4, leaseYear)]
\* bad-request, both without a projection and without a change of state;
\* every other query is answered with a result.
C12_ErrorsAndResults ==
    [][\A i \in DOMAIN obs' :
          (obs'[i].kind = "query") =>
              LET q == obs'[i]
                  r == obs'[i + 1]
              IN  /\ r.kind = "response"
                  /\ r.status = ClaimStatus(q, Today)
                  /\ (r.status = 200) <=> ("days" \in DOMAIN r)
                  /\ (r.status = 200) => r.year =
                         (IF q.year_arg = None THEN YearOf(Today)
                          ELSE The(q.year_arg))
                  /\ (r.status # 200) =>
                         UNCHANGED <<cache, cached_token, token_expires_at,
                                     now, phase, task, cycle, exchanges>>]_vars

\* in 2027 the lease year 2030 is below currentYear + 4: the year 2031 is
\* refused for the leased venue
C12_Witness ==
    /\ Len(obs) = 2
    /\ obs[1].kind = "query"
    /\ obs[1].venue = "ballroom"
    /\ obs[1].year_arg = Some(2031)
    /\ YearOf(Today) = 2027
    /\ obs[2].status = 400

\* C13: no query is answered before the startup refresh has stored an entry
\* for every venue, also when the token or the fetch failed, so every result
\* served reports a lastUpdated that is not absent.
C13_ServedAfterStartup ==
    /\ phase \in {"boot", "startup"} => ObsOf("response") = {}
    /\ ObsOf("response") # {} =>
           \A v \in VenueSet :
               /\ cache[v].stamp_cycle >= 1
               /\ cache[v].last_updated # None
    /\ \A i \in Served : obs[i].lastUpdated # None

\* a result served after a startup cycle whose token exchanges all failed
C13_Witness ==
    \E i \in Served :
        /\ cycle = 1
        /\ exchanges = Len(VENUES)
        /\ cached_token = None
        /\ obs[i].lastUpdated # None
        /\ cache[obs[i].venue].booked_dates = {}

\* C14: a refresh cycle starts only at startup, before any query is served,
\* or once 4 hours have passed since the cycle before it ended (the last
\* venue's lastUpdated); none starts between the end of the startup cycle
\* and the first 4-hour tick.
C14_OnlyTwoTriggers ==
    [][cycle' # cycle =>
          \/ cycle = 0 /\ phase = "boot"
          \/ /\ cache[VENUES[Len(VENUES)]].last_updated # None
             /\ now' >= The(cache[VENUES[Len(VENUES)]].last_updated)
                            + REFRESH_INTERVAL_HOURS * 3600]_vars

\* the periodic task can start its next cycle
CanStartCycle ==
    /\ phase = "serving"
    /\ \/ task.pc = "ready"
       \/ task.pc = "sleep" /\ now >= task.wake

\* no cycle is in flight with a venue still to be stored
AllStored == \A v \in VenueSet : cache[v].stamp_cycle = cycle

\* C15: a failure while a venue is refreshed (no token, error status,
\* exception, malformed payload) stops neither the cycle nor the loop: the
\* periodic task stays alive while the service runs, a cycle that returns
\* has stored an entry for every venue, every cycle started goes on to
\* store an entry for every venue unless the service is shut down, and a
\* task that can start its next cycle does start it.
C15_FailuresDoNotStopRefresh ==
    /\ [](phase = "serving" => task.pc \in {"ready", "sleep", "post", "get"})
    /\ [](task.pc \in {"ready", "sleep"} => AllStored)
    /\ []<>(phase = "stopped" \/ (cycle >= 1 /\ AllStored))
    /\ []<>(phase = "stopped" \/ cycle = MaxCycles \/ ~CanStartCycle)

\* in a periodic cycle the first venue's fetch raises, its entry is stored
\* and the page request of the second venue is sent in the same step
C15_Witness ==
    \E i \in ObsOf("fetch_ret"), j \in ObsOf("get") :
        /\ obs[i].why = "exception"
        /\ i < j
        /\ cycle >= 2
        /\ task.i = 2
        /\ cache[VENUES[1]].stamp_cycle = cycle

\* C16: cancelling the periodic task, wherever it is suspended, ends it and
\* changes no entry: every entry is as it was before the cycle in flight or
\* holds the set and the lastUpdated that cycle stored, never one without
\* the other.
C16_CancelLeavesEntriesWhole ==
    [][phase' = "stopped" /\ phase # "stopped" =>
          /\ cache' = cache
          /\ task'.pc = "cancelled"
          /\ \A v \in VenueSet :
                 /\ cache'[v].set_cycle = cache'[v].stamp_cycle
                 /\ cache'[v].stamp_cycle \in {cycle - 1, cycle}
                 /\ cache'[v].last_updated # None]_vars

\* cancelled while the second venue's page request is awaited: the first
\* venue's entry is of the cycle in flight, the second's of the cycle before
C16_Witness ==
    /\ phase = "stopped"
    /\ Len(obs) = 1
    /\ obs[1].kind = "cancel"
    /\ obs[1].pc = "get"
    /\ cycle >= 2
    /\ cache[VENUES[1]].stamp_cycle = cycle
    /\ cache[VENUES[2]].stamp_cycle = cycle - 1

\* C17: with a refresh token configured and no calendar handle for a venue,
\* every refresh of that venue stores the empty set, whatever events the
\* provider holds.
C17_NoHandleEmptySet ==
    \A i \in ObsOf("write") :
        (config.refresh_token /\ config.calendar_ids[obs[i].venue] = "")
            => obs[i].value = {}

\* the day of the refresh that stored the entry of venue v: the date
\* get_booked_dates read, which is also the date of the store
RefreshDay(v) == startDay + (The(cache[v].last_updated) \div 86400)

\* C18: every date of a cached set lies within [day of the refresh, day of
\* the refresh + 48 * 30 days], so a served result reports every day later
\* than that horizon available, whatever events the provider holds there.
C18_NothingBeyondHorizon ==
    /\ \A v \in VenueSet :
           cache[v].last_updated # None =>
               \A d \in cache[v].booked_dates :
                   RefreshDay(v) <= d /\ d <= RefreshDay(v) + 48 * 30
    /\ \A i \in Served :
           \A k \in DOMAIN obs[i].days :
               DateOfIso(obs[i].days[k].date) > RefreshDay(obs[i].venue) + 48 * 30
                   => obs[i].days[k].available

\* the provider holds a booking from 2030-05-19 to 2030-05-26 and the fetch
\* of 2026-06-10 ends on 2030-05-20: the result for 2030 reports Sunday
\* 2030-05-19 booked and Friday 2030-05-24 available
C18_Witness ==
    \E i \in Served :
        /\ obs[i].venue = "garden"
        /\ obs[i].year = 2030
        /\ Date(2030, 5, 20) \in cache["garden"].booked_dates
        /\ HasRecord(obs[i], <<2030, 5, 19>>, FALSE)
        /\ HasRecord(obs[i], <<2030, 5, 24>>, TRUE)

\* the fetch reported at obs[i] failed before it read any event
SoftFailure(i) ==
    /\ obs[i].kind = "fetch_ret"
    /\ obs[i].why \in {"no_token", "http_error", "exception"}
    /\ obs[i].read = <<>>

\* C19: when the fetch for a venue fails before any event is read (no token,
\* error status, exception), the cycle still stores the empty set and a new
\* lastUpdated for that venue, dropping the dates of the cycle before, and a
\* result served from an empty set reports every day available.
C19_SoftFailureStoresEmpty ==
    /\ \A i \in DOMAIN obs :
           SoftFailure(i) =>
               /\ i + 2 \in DOMAIN obs
               /\ obs[i + 2].kind = "write"
               /\ obs[i + 2].value = {}
               /\ obs[i + 2].cycle = cycle
               /\ cache[obs[i + 2].venue].booked_dates = {}
               /\ cache[obs[i + 2].venue].last_updated = Some(now)
               /\ cache[obs[i + 2].venue].stamp_cycle = cycle
    /\ \A i \in Served :
           cache[obs[i].venue].booked_dates = {} =>
               /\ obs[i].lastUpdated = cache[obs[i].venue].last_updated
               /\ \A k \in DOMAIN obs[i].days : obs[i].days[k].available

\* in a later cycle a page request answers with an error status and the
\* dates stored by the cycle before are dropped
C19_Witness ==
    \E i \in DOMAIN obs :
        /\ SoftFailure(i)
        /\ obs[i].why = "http_error"
        /\ cycle >= 2
        /\ obs[i + 2].old # {}
        /\ cache[obs[i + 2].venue].booked_dates = {}

\* C20: one refresh cycle is in flight at most: a cycle starts only when no
\* cycle is in flight and the cycle before it has stored every venue, the
\* periodic task does not exist during the startup cycle, every store is
\* made by the one cycle in flight, and a lastUpdated, once set, is never
\* absent again and never replaced by an earlier time.
C20_OneCycleInFlight ==
    [][/\ cycle' # cycle =>
              /\ cycle' = cycle + 1
              /\ task.pc \notin {"post", "get"}
              /\ \A v \in VenueSet : cache[v].stamp_cycle = cycle
       /\ phase' = "startup" => ~task'.periodic /\ cycle' = 1
       /\ \A i \in DOMAIN obs' :
              obs'[i].kind = "write" => obs'[i].cycle = cycle'
       /\ \A v \in VenueSet :
              /\ cache'[v].stamp_cycle \in {cache[v].stamp_cycle, cycle'}
              /\ cache[v].last_updated # None =>
                     /\ cache'[v].last_updated # None
                     /\ The(cache'[v].last_updated)
                            >= The(cache[v].last_updated)]_vars

\* the third cycle, started when the sleep was over, has stored the first
\* venue with a later time and awaits an answer for the second
C20_Witness ==
    /\ cycle = 3
    /\ task.pc \in {"post", "get"}
    /\ task.i = 2
    /\ cache[VENUES[1]].stamp_cycle = 3
    /\ The(cache[VENUES[1]].last_updated) > The(cache[VENUES[2]].last_updated)
    /\ cache[VENUES[2]].stamp_cycle = 2

=============================================================================
